---- MODULE Spec2Model ----
(***************************************************************************)
(* Model of src/src/extractors/base.py: ExtractionResult, BaseExtractor,   *)
(* DatabaseExtractor, APIExtractor and FileExtractor.                      *)
(*                                                                         *)
(* Python values are tagged records ([t |-> "str", v |-> "abc"], ...), a   *)
(* dict is a function from its keys to tagged values, a list of records is *)
(* a sequence of opaque record names, a string that the code inspects      *)
(* character by character is a sequence of one-character strings.          *)
(***************************************************************************)
EXTENDS Integers, Sequences, FiniteSets, TLC

VARIABLES
    api,        \* the APIExtractor instance's attributes (self.*)
    dicts,      \* heap of dict objects: reference -> contents
    pc,         \* per extract() call: position in the code
    entry,      \* per call: the method the caller invoked
    params,     \* per call: reference held by the local `params`
    all_data,   \* per call: the local list `all_data`
    client,     \* per call: state of the httpx.Client of the with block
    result,     \* per call: the ExtractionResult returned, or NoResult
    error,      \* per call: the exception that left the call, or NoError
    log,        \* every GET issued so far with the response it got, in order
    args,       \* the arguments APIExtractor(...) was constructed with
    db,         \* the DatabaseExtractor instance's attributes
    sql_log,    \* every pd.read_sql call so far: query and params, in order
    db_out,     \* the DatabaseExtractor calls made so far and how each ended
    file,       \* the FileExtractor instance's attributes
    read_log,   \* every pandas reader invoked so far, in order
    file_out,   \* the FileExtractor.extract() calls so far and how each ended
    made        \* the ExtractionResult objects a caller built directly

apivars == <<api, dicts, pc, entry, params, all_data, client, result, error, log, args>>
dbvars == <<db, sql_log, db_out>>
filevars == <<file, read_log, file_out>>
vars == <<apivars, dbvars, filevars, made>>

----------------------------------------------------------------------------
(* Python values *)

None == [t |-> "null"]
Str(s) == [t |-> "str", v |-> s]
List(l) == [t |-> "list", v |-> l]
Dict(d) == [t |-> "dict", v |-> d]
Bool(b) == [t |-> "bool", v |-> b]
Chars(s) == [t |-> "chars", v |-> s]
DateTime(d) == [t |-> "datetime", v |-> d]

EmptyDict == <<>>

\* bool(v)
Truthy(v) ==
    CASE v.t = "null" -> FALSE
      [] v.t = "str" -> v.v # ""
      [] v.t = "list" -> v.v # <<>>
      [] v.t = "dict" -> DOMAIN v.v # {}
      [] v.t = "chars" -> v.v # <<>>
      [] v.t = "bool" -> v.v
      [] v.t = "datetime" -> TRUE

\* d.get(k, default)
Get(d, k, default) == IF k \in DOMAIN d THEN d[k] ELSE default

\* {**d1, **d2}: the later mapping wins on a shared key
Merge(d1, d2) ==
    [k \in DOMAIN d1 \cup DOMAIN d2 |-> IF k \in DOMAIN d2 THEN d2[k] ELSE d1[k]]

\* d[k] = v
SetItem(d, k, v) == [x \in DOMAIN d \cup {k} |-> IF x = k THEN v ELSE d[x]]

\* s.rstrip(ch) and s.lstrip(ch) on a sequence of characters
RECURSIVE RStrip(_, _)
RStrip(s, ch) ==
    IF s # <<>> /\ s[Len(s)] = ch THEN RStrip(SubSeq(s, 1, Len(s) - 1), ch) ELSE s

RECURSIVE LStrip(_, _)
LStrip(s, ch) ==
    IF s # <<>> /\ Head(s) = ch THEN LStrip(Tail(s), ch) ELSE s

----------------------------------------------------------------------------
(* ExtractionResult *)

NoResult == [t |-> "none"]
NoError == "none"

\* a DataFrame built from a list of records: one row per record
DataFrame(records) == records

\* fault: __post_init__ leaves record_count as passed
PostInitDropped(r) == r

\* __post_init__
PostInit(r) == [r EXCEPT !.record_count = Len(r.data)]

\* the dataclass constructor: the generated __init__ stores the arguments and
\* then runs __post_init__
ExtractionResult(data, source, metadata, record_count) ==
    PostInit([t |-> "result", data |-> data, source |-> source,
              metadata |-> metadata, record_count |-> record_count])

\* the default of the record_count field
DefaultRecordCount == 0

----------------------------------------------------------------------------
(* APIExtractor *)

MaxRequests == 3

Calls == {"call1", "call2"}

SelfParams == "self.params"

\* what the endpoint may answer
Cursors == {None, Str(""), Str("abc"), Str("def")}
PageShapes ==
    { "data" :> List(<<"r1", "r2">>),
      ("items" :> List(<<"r3">>)) @@ ("results" :> List(<<"r1">>)) }
Mappings ==
    {Dict(EmptyDict)}
        \cup {Dict(s) : s \in PageShapes}
        \cup {Dict(s @@ ("next" :> c)) : s \in PageShapes, c \in Cursors}
BareLists == {List(<<"r2", "r1">>)}
Scalars == {None}
Invalid == [t |-> "invalid"]
Responses ==
    {[status |-> 500, body |-> b] : b \in {Invalid, Dict(EmptyDict)}}
        \cup {[status |-> 200, body |-> b] :
                 b \in {Invalid} \cup Mappings \cup BareLists \cup Scalars}

\* constructor arguments
ParamsArgs == {None, Dict(("q" :> Str("x")) @@ ("cursor" :> Str("old")))}
PaginationKeys == {None, Str("next")}
BaseUrlArg == <<"h", "/", "/">>
EndpointArg == <<"/", "u">>

\* APIExtractor.__init__
APIExtractorInit(base_url, endpoint, headers, prm, pagination_key) ==
    [base_url |-> RStrip(base_url, "/"),
     endpoint |-> LStrip(endpoint, "/"),
     headers |-> IF Truthy(headers) THEN headers.v ELSE EmptyDict,
     params |-> IF Truthy(prm) THEN prm.v ELSE EmptyDict,
     pagination_key |-> pagination_key]

\* url = f"{self.base_url}/{self.endpoint}"
Url(a) == a.base_url \o <<"/">> \o a.endpoint

\* fault: raise_for_status() is not called
StatusNeverRaises(resp) == FALSE

\* response.raise_for_status() raises
StatusRaises(resp) == resp.status \notin 200..299

\* response.json() raises
JsonRaises(resp) == resp.body.t = "invalid"

\* fault: params = self.params, without the copy
ParamsAlias(heap, src, fresh) == [ref |-> src, heap |-> heap]

\* params = self.params.copy(): a new dict object with the same items
ParamsCopy(heap, src, fresh) ==
    [ref |-> fresh, heap |-> [heap EXCEPT ![fresh] = heap[src]]]

\* items = data.get("data", data.get("items", data.get("results", [])))
ItemsOf(d) == Get(d, "data", Get(d, "items", Get(d, "results", List(<<>>))))

\* all_data.extend(...) of one loop iteration
Extend(acc, data) ==
    CASE data.t = "list" -> acc \o data.v
      [] data.t = "dict" -> acc \o ItemsOf(data.v).v
      [] OTHER -> acc

\* self.pagination_key and data.get(self.pagination_key)
HasCursor(data, key) ==
    /\ Truthy(key)
    /\ Truthy(Get(data.v, key.v, None))

\* fault: the list branch has no break
BreaksListContinues(data, key) ==
    CASE data.t = "list" -> FALSE
      [] data.t = "dict" -> ~HasCursor(data, key)
      [] OTHER -> FALSE

\* whether the iteration reaches a break statement
Breaks(data, key) ==
    CASE data.t = "list" -> TRUE
      [] data.t = "dict" -> ~HasCursor(data, key)
      [] OTHER -> FALSE

\* fault: the cursor is not written to the params
CursorKept(p, data, key) == p

\* params["cursor"] = data[self.pagination_key]
SetCursor(p, data, key) == SetItem(p, "cursor", data.v[key.v])

\* fault: the client is closed by hand after the loop, not by a with block
ClientLeakOnRaise(how) == IF how = "raise" THEN "open" ELSE "closed"

\* httpx.Client.__exit__: runs when the with block is left, by break or by
\* an exception
ClientExit(how) == "closed"

\* whether the response makes the call raise, and what
Raises(resp) == StatusRaises(resp) \/ JsonRaises(resp)
ErrorOf(resp) == IF StatusRaises(resp) THEN "HTTPStatusError" ELSE "JSONDecodeError"

APIInit ==
    /\ \E prm \in ParamsArgs, key \in PaginationKeys :
          LET a == APIExtractorInit(BaseUrlArg, EndpointArg, None, prm, key)
          IN /\ args = [params |-> prm, pagination_key |-> key]
             /\ api = [a EXCEPT !.params = SelfParams]
             /\ dicts = [r \in {SelfParams} \cup Calls |->
                            IF r = SelfParams THEN a.params ELSE EmptyDict]
    /\ pc = [c \in Calls |-> "idle"]
    /\ entry = [c \in Calls |-> "none"]
    /\ params = [c \in Calls |-> SelfParams]
    /\ all_data = [c \in Calls |-> <<>>]
    /\ client = [c \in Calls |-> "none"]
    /\ result = [c \in Calls |-> NoResult]
    /\ error = [c \in Calls |-> NoError]
    /\ log = <<>>

\* extract() up to the loop: all_data = [], the client is entered, the
\* params are copied
Enter(c, method) ==
    LET cp == ParamsCopy(dicts, api.params, c)
    IN /\ all_data' = [all_data EXCEPT ![c] = <<>>]
       /\ client' = [client EXCEPT ![c] = "open"]
       /\ params' = [params EXCEPT ![c] = cp.ref]
       /\ dicts' = cp.heap
       /\ pc' = [pc EXCEPT ![c] = "loop"]
       /\ entry' = [entry EXCEPT ![c] = method]
       /\ UNCHANGED <<api, result, error, log, args>>
       /\ UNCHANGED <<dbvars, filevars, made>>

\* APIExtractor.extract() is called
Extract(c) ==
    /\ pc[c] = "idle"
    /\ Enter(c, "extract")

\* BaseExtractor.extract_incremental(since): return self.extract()
ExtractIncremental(c) ==
    /\ pc[c] = "idle"
    /\ \E since \in {None, DateTime("2024-05-01")} : Enter(c, "extract_incremental")

\* one iteration of the while loop, and what follows the loop when it is left
Page(c) ==
    /\ pc[c] = "loop"
    /\ Len(log) < MaxRequests
    /\ \E resp \in Responses :
          /\ log' = Append(log, [call |-> c, url |-> Url(api),
                                 headers |-> api.headers,
                                 params |-> dicts[params[c]],
                                 resp |-> resp])
          /\ IF Raises(resp)
             THEN /\ client' = [client EXCEPT ![c] = ClientExit("raise")]
                  /\ error' = [error EXCEPT ![c] = ErrorOf(resp)]
                  /\ pc' = [pc EXCEPT ![c] = "failed"]
                  /\ UNCHANGED <<all_data, dicts, result>>
             ELSE LET data == resp.body
                      acc == Extend(all_data[c], data)
                  IN /\ all_data' = [all_data EXCEPT ![c] = acc]
                     /\ IF Breaks(data, api.pagination_key)
                        THEN /\ client' = [client EXCEPT ![c] = ClientExit("break")]
                             /\ result' = [result EXCEPT ![c] =
                                   ExtractionResult(
                                       DataFrame(acc),
                                       <<"api:", "users">>,
                                       "url" :> Url(api),
                                       DefaultRecordCount)]
                             /\ pc' = [pc EXCEPT ![c] = "done"]
                             /\ UNCHANGED <<dicts, error>>
                        ELSE /\ dicts' =
                                   IF data.t = "dict"
                                   THEN [dicts EXCEPT ![params[c]] =
                                            SetCursor(@, data, api.pagination_key)]
                                   ELSE dicts
                             /\ UNCHANGED <<client, result, error, pc>>
    /\ UNCHANGED <<api, params, args, entry>>
    /\ UNCHANGED <<dbvars, filevars, made>>

APINext == \E c \in Calls : Extract(c) \/ ExtractIncremental(c) \/ Page(c)

\* no APIExtractor has been constructed
APIAbsent ==
    /\ api = None /\ args = None
    /\ dicts = EmptyDict /\ pc = EmptyDict /\ entry = EmptyDict
    /\ params = EmptyDict
    /\ all_data = EmptyDict /\ client = EmptyDict /\ result = EmptyDict
    /\ error = EmptyDict /\ log = <<>>

----------------------------------------------------------------------------
(* DatabaseExtractor *)

MaxDbCalls == 2

\* SQL text is a sequence of tokens; the white space between them is not kept
Query1 == <<"SELECT", "*", "FROM", "orders">>
Query2 == <<"SELECT", "*", "FROM", "orders", "WHERE", "created", ">", ":since">>
QueryArgs == {Query1, Query2}
DbParamsArgs ==
    { None,
      Dict("region" :> Str("eu")),
      Dict(("region" :> Str("eu")) @@ ("since" :> DateTime("2020-01-01"))) }
SinceArgs == {None, DateTime("2024-05-01"), DateTime("2024-06-01")}
ColumnArgs == {"updated_at", "created_at"}

\* what pd.read_sql may do: return a frame of rows, or raise
Frames == {<<>>, <<"r1">>, <<"r1", "r2">>}
EngineOutcomes == {[raises |-> TRUE, frame |-> <<>>]}
                      \cup {[raises |-> FALSE, frame |-> f] : f \in Frames}

\* DatabaseExtractor.__init__
DatabaseExtractorInit(name, connection_string, query, prm) ==
    [name |-> name,
     connection_string |-> connection_string,
     query |-> query,
     params |-> IF Truthy(prm) THEN prm.v ELSE EmptyDict]

\* since.isoformat()
IsoFormat(d) == Str(<<d.v, "T00:00:00">>)

\* metadata of DatabaseExtractor.extract()
ExtractMetadata(self) ==
    ("query" :> Str(self.query)) @@ ("params" :> Dict(self.params))

\* query and params extract_incremental hands to pd.read_sql
IncrementalQuery(self, since, timestamp_column) ==
    IF Truthy(since)
    THEN <<"SELECT", "*", "FROM", "(">> \o self.query
             \o <<")", "AS", "base", "WHERE", timestamp_column, ">", ":since">>
    ELSE self.query

IncrementalParams(self, since) ==
    IF Truthy(since) THEN Merge(self.params, "since" :> since) ELSE self.params

\* metadata of DatabaseExtractor.extract_incremental()
IncrementalMetadata(since) ==
    ("incremental" :> Bool(TRUE))
        @@ ("since" :> IF Truthy(since) THEN IsoFormat(since) ELSE None)

DBInit ==
    /\ \E q \in QueryArgs, prm \in DbParamsArgs :
          db = DatabaseExtractorInit("orders", "sqlite://", q, prm)
    /\ sql_log = <<>>
    /\ db_out = <<>>

\* one call of a DatabaseExtractor method: the query goes to pd.read_sql,
\* which raises or returns the frame the result is built from
DbCall(op, since, column, query, prm, metadata) ==
    /\ Len(db_out) < MaxDbCalls
    /\ \E o \in EngineOutcomes :
          /\ sql_log' = Append(sql_log, [call |-> Len(db_out) + 1,
                                         query |-> query, params |-> prm])
          /\ db_out' = Append(db_out,
                [op |-> op, since |-> since, column |-> column,
                 error |-> IF o.raises THEN "DatabaseError" ELSE NoError,
                 result |-> IF o.raises THEN NoResult
                            ELSE ExtractionResult(DataFrame(o.frame),
                                                  <<"database:", db.name>>,
                                                  metadata, DefaultRecordCount)])
    /\ UNCHANGED <<db, apivars, filevars, made>>

\* DatabaseExtractor.extract()
DbExtract ==
    DbCall("extract", None, "", db.query, db.params, ExtractMetadata(db))

\* DatabaseExtractor.extract_incremental(since, timestamp_column)
DbExtractIncremental ==
    \E since \in SinceArgs, column \in ColumnArgs :
        DbCall("extract_incremental", since, column,
               IncrementalQuery(db, since, column),
               IncrementalParams(db, since),
               IncrementalMetadata(since))

DBNext == DbExtract \/ DbExtractIncremental

\* no DatabaseExtractor has been constructed
DBAbsent == db = None /\ sql_log = <<>> /\ db_out = <<>>

----------------------------------------------------------------------------
(* FileExtractor *)

MaxFileCalls == 2

Csv == <<"c", "s", "v">>
Json == <<"j", "s", "o", "n">>
Parquet == <<"p", "a", "r", "q", "u", "e", "t">>
Excel == <<"e", "x", "c", "e", "l">>
Xlsx == <<"x", "l", "s", "x">>
Xls == <<"x", "l", "s">>

\* SUPPORTED_FORMATS
SUPPORTED_FORMATS == {Csv, Json, Parquet, Excel}

PathArgs ==
    { <<"a", ".">> \o Csv,
      <<"b", ".", "X", "L", "S", "X">>,
      <<"c", ".">> \o Xls,
      <<"d", ".">> \o Json,
      <<"e", ".", "P", "a", "r", "q", "u", "e", "t">>,
      <<"f", ".", "t", "x", "t">>,
      <<"a", ".">> \o Csv \o <<".", "g", "z">>,
      Csv }
FormatArgs == {None, Chars(<<>>), Chars(Json), Chars(<<"C", "S", "V">>), Chars(Excel)}

\* ch.lower() on the letters the paths use
Upper == <<"X", "L", "S", "P", "C", "V">>
LowerOf == <<"x", "l", "s", "p", "c", "v">>
LowerChar(ch) ==
    IF \E i \in DOMAIN Upper : Upper[i] = ch
    THEN LowerOf[CHOOSE i \in DOMAIN Upper : Upper[i] = ch]
    ELSE ch

\* s.lower()
Lower(s) == [i \in DOMAIN s |-> LowerChar(s[i])]

\* path.rsplit(".", 1)[-1]: what follows the last dot, the whole path when
\* it has none
RECURSIVE RSplitLast(_)
RSplitLast(path) ==
    IF \A i \in DOMAIN path : path[i] # "."
    THEN path
    ELSE RSplitLast(Tail(path))

\* FileExtractor._detect_format
DetectFormat(path) ==
    LET ext == Lower(RSplitLast(path))
    IN IF ext \in {Xlsx, Xls} THEN Excel ELSE ext

\* FileExtractor.__init__
FileExtractorInit(name, file_path, file_format) ==
    [name |-> name,
     file_path |-> file_path,
     file_format |-> IF Truthy(file_format) THEN file_format.v
                     ELSE DetectFormat(file_path),
     read_options |-> EmptyDict]

\* fault: an unknown format falls through to read_csv
ReaderOrCsv(file_format) ==
    CASE file_format = Csv -> "read_csv"
      [] file_format = Json -> "read_json"
      [] file_format = Parquet -> "read_parquet"
      [] file_format = Excel -> "read_excel"
      [] OTHER -> "read_csv"

\* the if/elif chain of extract(): the pandas reader called, or "raise"
Reader(file_format) ==
    CASE file_format = Csv -> "read_csv"
      [] file_format = Json -> "read_json"
      [] file_format = Parquet -> "read_parquet"
      [] file_format = Excel -> "read_excel"
      [] OTHER -> "raise"

FileInit ==
    /\ \E path \in PathArgs, fmt \in FormatArgs :
          file = FileExtractorInit("f", path, fmt)
    /\ read_log = <<>>
    /\ file_out = <<>>

\* the body of FileExtractor.extract()
FileRun(op) ==
    /\ Len(file_out) < MaxFileCalls
    /\ LET reader == Reader(file.file_format)
       IN IF reader = "raise"
          THEN /\ file_out' = Append(file_out,
                     [op |-> op, error |-> "ValueError: Unsupported format",
                      result |-> NoResult])
               /\ UNCHANGED read_log
          ELSE \E o \in EngineOutcomes :
                  /\ read_log' = Append(read_log,
                        [call |-> Len(file_out) + 1, reader |-> reader,
                         path |-> file.file_path, options |-> file.read_options])
                  /\ file_out' = Append(file_out,
                        [op |-> op,
                         error |-> IF o.raises THEN "ReadError" ELSE NoError,
                         result |-> IF o.raises THEN NoResult
                                    ELSE ExtractionResult(
                                             o.frame,
                                             <<"file:", file.file_path>>,
                                             ("format" :> Chars(file.file_format))
                                                 @@ ("path" :> Chars(file.file_path)),
                                             DefaultRecordCount)])
    /\ UNCHANGED <<file, apivars, dbvars, made>>

\* FileExtractor.extract()
FileExtract == FileRun("extract")

\* BaseExtractor.extract_incremental(since): return self.extract()
FileExtractIncremental == \E since \in SinceArgs : FileRun("extract_incremental")

FileNext == FileExtract \/ FileExtractIncremental

\* no FileExtractor has been constructed
FileAbsent == file = None /\ read_log = <<>> /\ file_out = <<>>

----------------------------------------------------------------------------
(* ExtractionResult built by a caller *)

MaxResults == 2

RecordCountArgs == {DefaultRecordCount, 1, 7}

\* ExtractionResult(data, source, metadata=..., record_count=...)
Construct ==
    /\ Len(made) < MaxResults
    /\ \E data \in Frames, rc \in RecordCountArgs, md \in {EmptyDict, "k" :> Str("v")} :
          made' = Append(made,
                [passed |-> rc,
                 obj |-> ExtractionResult(data, <<"file:", "x">>, md, rc)])
    /\ UNCHANGED <<apivars, dbvars, filevars>>

\* BaseExtractor.validate
Validate(r) == Len(r.data) > 0

----------------------------------------------------------------------------
(* Specifications: one per extractor kind, and one for results built directly *)

InitAPI == APIInit /\ DBAbsent /\ FileAbsent /\ made = <<>>
SpecAPI == InitAPI /\ [][APINext]_vars

InitDB == DBInit /\ APIAbsent /\ FileAbsent /\ made = <<>>
SpecDB == InitDB /\ [][DBNext]_vars

InitFile == FileInit /\ APIAbsent /\ DBAbsent /\ made = <<>>
SpecFile == InitFile /\ [][FileNext]_vars

InitResult == APIAbsent /\ DBAbsent /\ FileAbsent /\ made = <<>>
SpecResult == InitResult /\ [][Construct]_vars

----------------------------------------------------------------------------
(* Properties of APIExtractor.extract(), checked under SpecAPI *)

\* the GETs of call c with their responses, in the order they were issued
Exchanges(c) == LET OfCall(e) == e.call = c IN SelectSeq(log, OfCall)

\* the params APIExtractor(...) was configured with
Configured == IF Truthy(args.params) THEN args.params.v ELSE EmptyDict

Succeeds(resp) == resp.status \in 200..299 /\ resp.body.t # "invalid"

\* the record list a successfully returned page carries: a bare list itself,
\* a mapping's first present of "data", "items", "results"
RecordList(body) ==
    CASE body.t = "list" -> body.v
      [] body.t = "dict" ->
            IF "data" \in DOMAIN body.v THEN body.v["data"].v
            ELSE IF "items" \in DOMAIN body.v THEN body.v["items"].v
            ELSE IF "results" \in DOMAIN body.v THEN body.v["results"].v
            ELSE <<>>
      [] OTHER -> <<>>

\* the record lists of the first n exchanges, concatenated in page order
RECURSIVE Concatenated(_, _)
Concatenated(ex, n) ==
    IF n = 0 THEN <<>>
    ELSE Concatenated(ex, n - 1) \o RecordList(ex[n].resp.body)

\* the value a mapping page carries under the pagination key is non-empty
CarriesCursor(resp) ==
    /\ Succeeds(resp)
    /\ resp.body.t = "dict"
    /\ Truthy(args.pagination_key)
    /\ args.pagination_key.v \in DOMAIN resp.body.v
    /\ resp.body.v[args.pagination_key.v] \notin {None, Str("")}

\* pages 1..n-1 are mappings with a non-empty cursor, page n is a mapping
\* without one
PaginatedRun(ex, n) ==
    /\ \A k \in 1..n : Succeeds(ex[k].resp) /\ ex[k].resp.body.t = "dict"
    /\ \A k \in 1..(n - 1) : CarriesCursor(ex[k].resp)
    /\ ~CarriesCursor(ex[n].resp)

\* C1: with a pagination key configured, a response sequence of n mapping
\* pages of which exactly the last carries no cursor makes the call issue
\* exactly n GETs, the first with the configured params, request k+1 with
\* cursor = the value page k returned, and return the pages' record lists
\* concatenated in page order.
C1_Pagination ==
    \A c \in Calls :
        LET ex == Exchanges(c)
        IN \A n \in 1..Len(ex) :
              (Truthy(args.pagination_key) /\ PaginatedRun(ex, n)) =>
                  /\ Len(ex) = n
                  /\ pc[c] = "done"
                  /\ ex[1].params = Configured
                  /\ \A k \in 1..(n - 1) :
                        ex[k + 1].params =
                            Merge(Configured,
                                  "cursor" :> ex[k].resp.body.v[args.pagination_key.v])
                  /\ result[c] # NoResult
                  /\ result[c].data = Concatenated(ex, n)

\* a call that fetched three mapping pages, following two different cursors
C1_Witness ==
    \E c \in Calls :
        LET ex == Exchanges(c)
        IN /\ Truthy(args.pagination_key)
           /\ Len(ex) = 3
           /\ PaginatedRun(ex, 3)
           /\ ex[1].resp.body.v["next"] # ex[2].resp.body.v["next"]
           /\ pc[c] = "done"
           /\ Len(result[c].data) >= 3

\* C2: a response whose top-level value is a bare list is the last exchange
\* of its call; the call returns the records accumulated before it followed
\* by the list's elements, so a first response that is a list yields exactly
\* that list after exactly one request, with or without a pagination key.
C2_BareListTerminal ==
    \A c \in Calls :
        LET ex == Exchanges(c)
        IN \A k \in 1..Len(ex) :
              (Succeeds(ex[k].resp) /\ ex[k].resp.body.t = "list") =>
                  /\ Len(ex) = k
                  /\ pc[c] = "done"
                  /\ result[c] # NoResult
                  /\ result[c].data = Concatenated(ex, k - 1) \o ex[k].resp.body.v
                  /\ k = 1 => result[c].data = ex[1].resp.body.v

\* a call with a pagination key configured whose first response was a list
C2_Witness ==
    \E c \in Calls :
        LET ex == Exchanges(c)
        IN /\ Truthy(args.pagination_key)
           /\ Len(ex) = 1
           /\ ex[1].resp.body.t = "list"
           /\ pc[c] = "done"
           /\ result[c].data = <<"r2", "r1">>

\* C3: a request answered with a non-success status or an unparseable body
\* is the last exchange of its call: the call fails with that error and has
\* no ExtractionResult, whatever earlier pages accumulated.
C3_FailureNoResult ==
    \A c \in Calls :
        LET ex == Exchanges(c)
        IN \A k \in 1..Len(ex) :
              ~Succeeds(ex[k].resp) =>
                  /\ Len(ex) = k
                  /\ pc[c] = "failed"
                  /\ error[c] = IF ex[k].resp.status \notin 200..299
                                THEN "HTTPStatusError" ELSE "JSONDecodeError"
                  /\ result[c] = NoResult

\* a call that failed on its second page after accumulating records, on a
\* non-success status whose body was valid JSON
C3_Witness ==
    \E c \in Calls :
        LET ex == Exchanges(c)
        IN /\ Len(ex) = 2
           /\ all_data[c] # <<>>
           /\ ex[2].resp.status = 500
           /\ ex[2].resp.body.t = "dict"
           /\ pc[c] = "failed"
           /\ result[c] = NoResult

\* C8: the HTTP client of a call is open exactly while the call is inside
\* the with block; once the call has returned or failed it is closed.
C8_ClientReleased ==
    \A c \in Calls :
        /\ pc[c] \in {"done", "failed"} => client[c] = "closed"
        /\ pc[c] = "idle" => client[c] = "none"

\* a call that failed on a JSON-parse error on a later page, client closed
C8_Witness ==
    \E c \in Calls :
        /\ pc[c] = "failed"
        /\ error[c] = "JSONDecodeError"
        /\ Len(Exchanges(c)) >= 2
        /\ client[c] = "closed"

\* C9: a successfully returned response that carries no non-empty value
\* under the configured pagination key, whatever its top-level value, is
\* the last exchange of its call: no further request is issued.
C9_StopsAfterCursorlessResponse ==
    \A c \in Calls :
        LET ex == Exchanges(c)
        IN \A k \in 1..Len(ex) :
              (Succeeds(ex[k].resp) /\ ~CarriesCursor(ex[k].resp)) => Len(ex) = k

\* C10: the extractor's configuration stays as constructed, every call's
\* first request carries exactly the configured params, and a returned
\* result holds exactly the records of the pages its own call fetched.
C10_ConfigurationUntouched ==
    /\ api = [APIExtractorInit(BaseUrlArg, EndpointArg, None, args.params,
                               args.pagination_key) EXCEPT !.params = SelfParams]
    /\ dicts[SelfParams] = Configured
    /\ \A c \in Calls :
          LET ex == Exchanges(c)
          IN /\ Len(ex) >= 1 => ex[1].params = Configured
             /\ \A k \in 1..Len(ex) :
                   /\ ex[k].headers = EmptyDict
                   /\ ex[k].url = <<"h", "/", "u">>
             /\ pc[c] = "done" => result[c].data = Concatenated(ex, Len(ex))

\* two interleaved calls, extract() and extract_incremental(): the second
\* call's first request goes out between the first call's page 1, which
\* returned a cursor, and its page 2
C10_Witness ==
    /\ Len(log) = 3
    /\ log[1].call = log[3].call
    /\ log[2].call # log[1].call
    /\ CarriesCursor(log[1].resp)
    /\ "cursor" \in DOMAIN log[3].params
    /\ entry[log[1].call] = "extract"
    /\ entry[log[2].call] = "extract_incremental"
    /\ \A c \in Calls : pc[c] = "done" /\ result[c].data # <<>>

----------------------------------------------------------------------------
(* Properties of DatabaseExtractor, checked under SpecDB *)

\* C4: extract_incremental(since=None) sends the query engine the stored
\* query and params, and its result carries the source tag and the metadata
\* of extract(), with nothing in the metadata marking it incremental.
C4_IncrementalNoneIsExtract ==
    \A i \in 1..Len(db_out) :
        (db_out[i].op = "extract_incremental" /\ db_out[i].since = None) =>
            /\ sql_log[i].query = db.query
            /\ sql_log[i].params = db.params
            /\ db_out[i].result # NoResult =>
                  /\ db_out[i].result.source = <<"database:", db.name>>
                  /\ db_out[i].result.metadata = ExtractMetadata(db)
                  /\ "incremental" \in DOMAIN db_out[i].result.metadata =>
                        db_out[i].result.metadata["incremental"] = Bool(FALSE)

\* C5: extract_incremental(since=T) runs exactly one query, the stored query
\* wrapped as SELECT * FROM (<query>) AS base WHERE <column> > :since, with
\* the stored params plus since = T, every stored param keeping its value.
C5_IncrementalKeepsParams ==
    /\ Len(sql_log) = Len(db_out)
    /\ \A i \in 1..Len(db_out) :
          (db_out[i].op = "extract_incremental" /\ db_out[i].since # None) =>
              /\ sql_log[i].call = i
              /\ sql_log[i].query =
                    <<"SELECT", "*", "FROM", "(">> \o db.query
                        \o <<")", "AS", "base", "WHERE", db_out[i].column, ">", ":since">>
              /\ DOMAIN sql_log[i].params = DOMAIN db.params \cup {"since"}
              /\ sql_log[i].params["since"] = db_out[i].since
              /\ \A k \in DOMAIN db.params : sql_log[i].params[k] = db.params[k]

----------------------------------------------------------------------------
(* Properties of FileExtractor, checked under SpecFile *)

\* the pandas readers invoked by the i-th call
ReadsOf(i) == LET OfCall(r) == r.call = i IN SelectSeq(read_log, OfCall)

\* the decoder of each supported format
DecoderFor ==
    [f \in SUPPORTED_FORMATS |->
        IF f = Csv THEN "read_csv"
        ELSE IF f = Json THEN "read_json"
        ELSE IF f = Parquet THEN "read_parquet"
        ELSE "read_excel"]

\* C6: a call on a supported resolved format invokes exactly the decoder of
\* that format, once, on the configured path; a call on any other resolved
\* format invokes no decoder, fails with the unsupported-format error and
\* has no result.
C6_FormatDispatch ==
    \A i \in 1..Len(file_out) :
        IF file.file_format \in SUPPORTED_FORMATS
        THEN /\ Len(ReadsOf(i)) = 1
             /\ ReadsOf(i)[1].reader = DecoderFor[file.file_format]
             /\ ReadsOf(i)[1].path = file.file_path
        ELSE /\ ReadsOf(i) = <<>>
             /\ file_out[i].error = "ValueError: Unsupported format"
             /\ file_out[i].result = NoResult

\* two calls on an extractor whose format, taken from the path's extension,
\* is not supported: both failed and no decoder ran
C6_Witness ==
    /\ file # None
    /\ file.file_format \notin SUPPORTED_FORMATS
    /\ file.file_format = Lower(RSplitLast(file.file_path))
    /\ Len(file_out) >= 2
    /\ read_log = <<>>

----------------------------------------------------------------------------
(* Properties of ExtractionResult, checked under SpecResult *)

\* C7: every constructed ExtractionResult has record_count equal to the
\* number of rows of its data, whatever record_count the caller passed.
C7_RecordCount ==
    \A i \in 1..Len(made) : made[i].obj.record_count = Len(made[i].obj.data)

\* a result built from two rows by a caller who passed record_count = 7
C7_Witness ==
    \E i \in 1..Len(made) :
        /\ made[i].passed = 7
        /\ Len(made[i].obj.data) = 2
        /\ made[i].obj.record_count = 2

====
